---- MODULE Spec2Model ----
(***************************************************************************)
(* Differentiable triangle rasterizer (mesh_renderer/rasterize_triangles). *)
(*                                                                         *)
(* Numbers.  Tensors of floats are modelled exactly on a fixed-point grid: *)
(* a barycentric weight is an integer number of 1/WeightDenom, an          *)
(* attribute or background value is an integer, an alpha is an integer     *)
(* number of 1/WeightDenom and an output value an integer number of        *)
(* 1/WeightDenom^2.  The rasterization kernel truncates the weights it     *)
(* writes to the grid, which plays the part of floating rounding: the      *)
(* weights of a covered pixel sum to 1 only approximately.  Depths are     *)
(* exact fractions <<numerator, denominator>>.                             *)
(*                                                                         *)
(* Indices.  Vertex indices, triangle ids, batch indices and pixel         *)
(* coordinates keep the 0-based values of the code; a sequence is indexed  *)
(* at i + 1.                                                               *)
(***************************************************************************)
EXTENDS Integers, Sequences, FiniteSets, TLC

\* ------------------------------------------------------------------ bounds
MaxBatch == 2
MaxWidth == 2
MaxHeight == 1
MaxTriangles == 2
WeightDenom == 4
MaxCtx == 2
KernelWorkers == 2

\* ------------------------------------------------------------- sequences
RECURSIVE SumSeq(_)
SumSeq(s) == IF s = <<>> THEN 0 ELSE Head(s) + SumSeq(Tail(s))

RECURSIVE Flatten(_)
Flatten(rows) == IF rows = <<>> THEN <<>> ELSE Head(rows) \o Flatten(Tail(rows))

Max(a, b) == IF a >= b THEN a ELSE b

\* ------------------------------------------------------- bounded inputs
\* Clip-space vertex slices [vertex_count, 4], xyzw.  Every vertex has
\* w > 0.  MeshNear: triangle (0,1,3) lies in front of triangle (0,1,2).
\* MeshFar: it lies behind, and beyond the far plane near its apex.
\* MeshTie: both triangles coincide.  MeshHalf: triangle (0,1,3) covers the
\* right half of the viewport only, with unequal w.
MeshNear == << <<-3, -1, 0, 1>>, <<3, -1, 0, 1>>, <<0, 2, 0, 1>>, <<0, 2, -1, 1>> >>
MeshFar  == << <<-3, -1, 0, 1>>, <<3, -1, 0, 1>>, <<0, 2, 0, 1>>, <<0, 2, 3, 1>> >>
MeshTie  == << <<-3, -1, 0, 1>>, <<3, -1, 0, 1>>, <<0, 2, 0, 1>>, <<0, 2, 0, 1>> >>
MeshHalf == << <<0, -1, 0, 1>>, <<3, -1, 0, 1>>, <<-3, 2, 1, 1>>, <<0, 2, -1, 2>> >>
MeshSeq == <<MeshNear, MeshFar, MeshTie, MeshHalf>>
Meshes == {MeshSeq[i] : i \in 1..Len(MeshSeq)}

\* Triangles over those vertices: two front-facing ones and a back-facing one.
Triangles == {<<0, 1, 2>>, <<0, 1, 3>>, <<0, 2, 1>>}

\* Triangle lists [triangle_count, 3]: the orderings of up to MaxTriangles
\* distinct triangles.
TriangleLists ==
    {t \in UNION {[1..n -> Triangles] : n \in 1..MaxTriangles} :
        \A i, j \in DOMAIN t : i # j => t[i] # t[j]}

\* ------------------------------------------- rasterization kernel (forward)
\* Numerator of the edge function of the pixel sample against the edge
\* va -> vb of the projected triangle, scaled by W * H * wa * wb: positive
\* when the sample lies to the left of the edge.  The sample of pixel (x, y)
\* is the pixel centre ((2x + 1 - W) / W, (2y + 1 - H) / H).
EdgeNumerator(va, vb, W, H, x, y) ==
    LET sx == 2 * x + 1 - W
        sy == 2 * y + 1 - H
    IN  (W * va[1] - sx * va[4]) * (H * vb[2] - sy * vb[4])
        - (H * va[2] - sy * va[4]) * (W * vb[1] - sx * vb[4])

\* a < b for depths <<n, d>> with d >= 0; <<1, 0>> is the depth of an empty
\* pixel, behind every triangle.
DepthLess(a, b) == a[1] * b[2] < b[1] * a[2]

EmptyPixel == [id |-> 0, bary |-> <<0, 0, 0>>, z |-> <<1, 0>>]

\* The kernel at rest: no run in progress.
KernelIdle == [pc |-> "idle", verts |-> <<>>, tris |-> <<>>, w |-> 0, h |-> 0,
               px |-> <<>>, pos |-> <<>>]

\* The fragment of triangle tri at pixel (x, y): whether the triangle covers
\* the sample, its perspective-correct weights and its depth.
Fragment(verts, tri, W, H, x, y) ==
    LET v0 == verts[tri[1] + 1]
        v1 == verts[tri[2] + 1]
        v2 == verts[tri[3] + 1]
        n0 == EdgeNumerator(v1, v2, W, H, x, y)
        n1 == EdgeNumerator(v2, v0, W, H, x, y)
        n2 == EdgeNumerator(v0, v1, W, H, x, y)
        n  == n0 + n1 + n2
        zn == n0 * v0[3] + n1 * v1[3] + n2 * v2[3]
        zd == n0 * v0[4] + n1 * v1[4] + n2 * v2[4]
        inside == n0 >= 0 /\ n1 >= 0 /\ n2 >= 0 /\ n > 0
    IN  [covered |-> inside /\ zd > 0 /\ -zd <= zn /\ zn <= zd,
         bary |-> IF inside
                  THEN <<(WeightDenom * n0) \div n, (WeightDenom * n1) \div n,
                         (WeightDenom * n2) \div n>>
                  ELSE <<0, 0, 0>>,
         z |-> <<zn, zd>>]

\* The first-wins mutant's counterpart: a later triangle at the same depth
\* overwrites.
DepthTestLastWins(px, t, frag) ==
    IF frag.covered /\ ~DepthLess(px.z, frag.z)
    THEN [id |-> t, bary |-> frag.bary, z |-> frag.z]
    ELSE px

\* Depth test of one fragment of triangle t against the pixel's stored entry.
DepthTest(px, t, frag) ==
    IF frag.covered /\ DepthLess(frag.z, px.z)
    THEN [id |-> t, bary |-> frag.bary, z |-> frag.z]
    ELSE px

\* The entry of pixel (x, y) after the first n triangles of the list.
RECURSIVE RasterizePixel(_, _, _, _, _, _, _)
RasterizePixel(verts, tris, W, H, x, y, n) ==
    IF n = 0 THEN EmptyPixel
    ELSE DepthTest(RasterizePixel(verts, tris, W, H, x, y, n - 1), n - 1,
                   Fragment(verts, tris[n], W, H, x, y))

\* rasterize_triangles_cpp.forward: the three buffers, [H][W] each.
rasterize_triangles_cpp_forward(verts, tris, W, H) ==
    LET px(x, y) == RasterizePixel(verts, tris, W, H, x, y, Len(tris))
    IN  [px_triangle_ids |-> [y \in 1..H |-> [x \in 1..W |-> px(x - 1, y - 1).id]],
         px_barycentric_coords |->
             [y \in 1..H |-> [x \in 1..W |-> px(x - 1, y - 1).bary]],
         z_buffer |-> [y \in 1..H |-> [x \in 1..W |-> px(x - 1, y - 1).z]]]

\* ------------------------------------------------ camera projector (external)
\* camera_utils.transform_homogeneous: clip[b][v] = camera[b] . (x, y, z, 1).
MatVec(m, v) == [r \in 1..4 |-> m[r][1] * v[1] + m[r][2] * v[2] + m[r][3] * v[3] + m[r][4]]

transform_homogeneous(camera_matrices, world_space_vertices) ==
    [b \in 1..Len(world_space_vertices) |->
        [v \in 1..Len(world_space_vertices[b]) |->
            MatVec(camera_matrices[b], world_space_vertices[b][v])]]

CamIdentity == << <<1, 0, 0, 0>>, <<0, 1, 0, 0>>, <<0, 0, 1, 0>>, <<0, 0, 0, 1>> >>
CamZoomOut  == << <<1, 0, 0, 0>>, <<0, 1, 0, 0>>, <<0, 0, 1, 0>>, <<0, 0, 0, 2>> >>
CamMirror   == << <<-1, 0, 0, 0>>, <<0, 1, 0, 0>>, <<0, 0, 1, 0>>, <<0, 0, 0, 1>> >>
CamSeq == <<CamIdentity, CamZoomOut, CamMirror>>

\* World-space slices [vertex_count, 3]: the xyz of the meshes.
WorldOf(mesh) == [v \in 1..Len(mesh) |-> <<mesh[v][1], mesh[v][2], mesh[v][3]>>]

\* ------------------------------------------------ arguments of the entry points
\* A vertex buffer is its shape and its nested contents.  Batches of B images
\* take consecutive meshes of MeshSeq from an offset on.
MeshBatch(B, off) == [b \in 1..B |-> MeshSeq[((off + b - 1) % Len(MeshSeq)) + 1]]

Rank3Buffers ==
    {[shape |-> <<B, Len(MeshNear), 4>>, data |-> MeshBatch(B, off)] :
        B \in 1..MaxBatch, off \in {0, Len(MeshSeq) - 1}}

VertexBuffers ==
    Rank3Buffers
    \cup {[shape |-> <<Len(MeshNear), 4>>, data |-> MeshNear],
          [shape |-> <<1, 1, Len(MeshNear), 4>>, data |-> << <<MeshNear>> >>]}

AttributeCounts == {1, 2}

\* Attribute buffers [batch, vertex_count, attribute_count]: pattern 1 gives
\* every entry its own value, pattern 2 repeats values and has zeros.
AttributeBuffer(pat, B, V, A) ==
    [b \in 1..B |-> [v \in 1..V |-> [c \in 1..A |->
        IF pat = 1 THEN 1 + (c - 1) + A * ((v - 1) + V * (b - 1))
        ELSE ((b - 1) + 2 * (v - 1) + 3 * (c - 1)) % 3]]]

AttributeBuffers ==
    {AttributeBuffer(pat, B, Len(MeshNear), A) :
        pat \in 1..2, B \in 1..MaxBatch, A \in AttributeCounts}

BackgroundValues == {[c \in 1..A |-> base + c - 1] : A \in AttributeCounts, base \in {0, 7}}

\* The triangle lists the entry points are called with: the longest ones.
CallTriangleLists ==
    {t \in TriangleLists :
        Len(t) = IF MaxTriangles < Cardinality(Triangles)
                 THEN MaxTriangles ELSE Cardinality(Triangles)}

\* Arguments of rasterize_clip_space: every combination of buffers with a
\* positive image size, among them buffers whose batch sizes differ and vertex
\* buffers that are not 3-dimensional; and non-positive image sizes.
ClipArguments ==
    UNION {
        {[clip_space_vertices |-> vb, attributes |-> at, triangles |-> tr,
          image_width |-> W, image_height |-> H, background_value |-> bg] :
            vb \in VertexBuffers,
            at \in {t \in AttributeBuffers : Len(t[1][1]) = A},
            tr \in CallTriangleLists, W \in {1, MaxWidth}, H \in 1..MaxHeight,
            bg \in {v \in BackgroundValues : Len(v) = A}} :
        A \in AttributeCounts}
    \cup
    {[clip_space_vertices |-> vb,
      attributes |-> AttributeBuffer(1, vb.shape[1], Len(MeshNear), 1),
      triangles |-> << <<0, 1, 2>> >>,
      image_width |-> W, image_height |-> H, background_value |-> <<7>>] :
        vb \in VertexBuffers,
        W \in {w \in (-1)..MaxWidth : w <= 0 \/ w = MaxWidth},
        H \in {h \in (-1)..MaxHeight : h <= 0 \/ h = MaxHeight}}

\* Arguments whose attribute count and background length agree.
SameAttributeCount(a) == Len(a.attributes[1][1]) = Len(a.background_value)

\* ----------------------------------------------------- tensor operations
\* torch.reshape(t, [n, -1]) of the flat contents: rows of equal length, an
\* error when the element count is not a multiple of n.
ReshapeRows(flat, n) ==
    IF n <= 0 \/ Len(flat) % n # 0
    THEN [ok |-> FALSE, rows |-> <<>>]
    ELSE LET c == Len(flat) \div n
         IN  [ok |-> TRUE,
              rows |-> [i \in 1..n |-> SubSeq(flat, (i - 1) * c + 1, i * c)]]

\* torch.index_select(triangles, 0, ids).
index_select(triangles, ids) == [i \in 1..Len(ids) |-> triangles[ids[i] + 1]]

\* vertex_ids + b * vertex_count.
reindexed_ids_no_offset(vertex_ids, b, vertex_count) == vertex_ids

reindexed_ids(vertex_ids, b, vertex_count) ==
    [i \in 1..Len(vertex_ids) |->
        [k \in 1..3 |-> vertex_ids[i][k] + b * vertex_count]]

\* clip_space_vertices[b, :, :].
vertex_slice_first(clip_space_vertices, b) == clip_space_vertices[1]

vertex_slice(clip_space_vertices, b) == clip_space_vertices[b + 1]

\* The empty list a call starts its per-image lists from.
stale_list(previous) == previous

fresh_list(previous) == <<>>

Clamp(x, lo, hi) == IF x < lo THEN lo ELSE IF x > hi THEN hi ELSE x

\* torch.clamp(torch.sum(2.0 * barycentric_coordinates, dim=1), 0.0, 1.0), in
\* units of 1 / WeightDenom.
alphas_without_factor(barycentric_coordinates) ==
    [r \in 1..Len(barycentric_coordinates) |->
        Clamp(SumSeq(barycentric_coordinates[r]), 0, WeightDenom)]

alphas_of(barycentric_coordinates) ==
    [r \in 1..Len(barycentric_coordinates) |->
        Clamp(SumSeq([k \in 1..3 |-> 2 * barycentric_coordinates[r][k]]), 0, WeightDenom)]

\* torch.sum(torch.mul(corner_attributes, unsqueeze(barycentric_coordinates, 2)),
\* dim=1), in units of 1 / WeightDenom.
summed_attributes_of(corner_attributes, barycentric_coordinates) ==
    [r \in 1..Len(corner_attributes) |->
        [c \in 1..Len(corner_attributes[r][1]) |->
            SumSeq([k \in 1..3 |->
                corner_attributes[r][k][c] * barycentric_coordinates[r][k]])]]

\* alphas * attribute_images + (1.0 - alphas) * background_value for one pixel,
\* broadcast over the last dimension, in units of 1 / WeightDenom^2.
blend_swapped(alpha, attribute_image, background_value) ==
    [c \in 1..Max(Len(attribute_image), Len(background_value)) |->
        alpha * WeightDenom
              * background_value[IF Len(background_value) = 1 THEN 1 ELSE c]
        + (WeightDenom - alpha)
              * attribute_image[IF Len(attribute_image) = 1 THEN 1 ELSE c]]

blend(alpha, attribute_image, background_value) ==
    [c \in 1..Max(Len(attribute_image), Len(background_value)) |->
        alpha * attribute_image[IF Len(attribute_image) = 1 THEN 1 ELSE c]
        + (WeightDenom - alpha) * WeightDenom
              * background_value[IF Len(background_value) = 1 THEN 1 ELSE c]]

Broadcastable(m, n) == m = n \/ m = 1 \/ n = 1

\* Lines 168-197 of rasterize_clip_space: from the per-image lists to the
\* returned image [batch][H][W][attribute] or the error torch raises.
Failure(kind) == [status |-> kind, value |-> <<>>, alphas |-> <<>>]

finish(a, batch_size, vertex_count, bary_list, ids_list) ==
    LET barycentric_coordinates == Flatten(bary_list)
        vertex_ids == Flatten(ids_list)
        flattened == ReshapeRows(Flatten(Flatten(a.attributes)),
                                 batch_size * vertex_count)
        H == a.image_height
        W == a.image_width
        pixels == batch_size * H * W
    IN  IF ~flattened.ok THEN Failure("RuntimeError")
        ELSE IF \E r \in 1..Len(vertex_ids) : \E k \in 1..3 :
                    vertex_ids[r][k] >= Len(flattened.rows)
        THEN Failure("IndexError")
        ELSE
        LET corner_attributes ==
                [r \in 1..Len(vertex_ids) |->
                    [k \in 1..3 |-> flattened.rows[vertex_ids[r][k] + 1]]]
            summed == summed_attributes_of(corner_attributes, barycentric_coordinates)
            images == ReshapeRows(Flatten(summed), pixels)
            alphas == alphas_of(barycentric_coordinates)
        IN  IF ~images.ok \/ Len(alphas) # pixels THEN Failure("RuntimeError")
            ELSE IF ~Broadcastable(Len(images.rows[1]), Len(a.background_value))
            THEN Failure("RuntimeError")
            ELSE [status |-> "returned",
                  value |->
                    [b \in 1..batch_size |-> [y \in 1..H |-> [x \in 1..W |->
                        LET r == ((b - 1) * H + (y - 1)) * W + x
                        IN  blend(alphas[r], images.rows[r], a.background_value)]]],
                  alphas |->
                    [b \in 1..batch_size |-> [y \in 1..H |-> [x \in 1..W |->
                        alphas[((b - 1) * H + (y - 1)) * W + x]]]]]

\* Lines 143-148: the checks rasterize_clip_space makes of its arguments.
valid_arguments_nonnegative(a) ==
    /\ a.image_width >= 0
    /\ a.image_height >= 0
    /\ Len(a.clip_space_vertices.shape) = 3

valid_arguments(a) ==
    /\ a.image_width > 0
    /\ a.image_height > 0
    /\ Len(a.clip_space_vertices.shape) = 3

\* BarycentricRasterizer.forward: the kernel's three buffers, and the tensors
\* saved for the backward pass.
BarycentricRasterizer_forward(clip_space_vertices, triangles, image_width, image_height) ==
    LET out == rasterize_triangles_cpp_forward(clip_space_vertices, triangles,
                                               image_width, image_height)
    IN  [ret |-> out,
         saved |-> [clip_space_vertices |-> clip_space_vertices,
                    triangles |-> triangles,
                    px_triangle_ids |-> out.px_triangle_ids,
                    px_barycentric_coords |-> out.px_barycentric_coords]]

VARIABLES
    kern,       \* the rasterization kernel's run: inputs, pixel buffers, workers
    pc,         \* rasterize_clip_space: "idle", "loop" or "done"
    args,       \* the arguments of the call in progress (the caller's buffers)
    entry,      \* the arguments as they were when the call began
    frame,      \* the call's locals: b, batch_size, vertex_count, the two lists
    kernel_log, \* the kernel invocations of the call in progress, in order
    result,     \* what the call hands to its caller
    prev,       \* an earlier call remembered by the caller: arguments and result
    ctxs,       \* autograd: the operation records of the forward calls
    fwd_log,    \* autograd: the forward calls, in order
    bwd_log     \* autograd: the backward calls, in order

vars == <<kern, pc, args, entry, frame, kernel_log, result, prev, ctxs, fwd_log, bwd_log>>

orch_vars == <<pc, args, entry, frame, kernel_log, result, prev>>

grad_vars == <<ctxs, fwd_log, bwd_log>>

\* --------------------------------------------------- rasterize_clip_space
NoArgs == [clip_space_vertices |-> [shape |-> <<>>, data |-> <<>>], attributes |-> <<>>,
           triangles |-> <<>>, image_width |-> 0, image_height |-> 0,
           background_value |-> <<>>]

NoFrame == [b |-> 0, batch_size |-> 0, vertex_count |-> 0,
            per_image_barycentric_coordinates |-> <<>>,
            per_image_vertex_ids |-> <<>>]

NoResult == [status |-> "none", value |-> <<>>, alphas |-> <<>>]

NoPrev == [args |-> NoArgs, result |-> NoResult, age |-> 0]

\* Entry of rasterize_clip_space with arguments a: lines 143-155.
Enter(a) ==
    /\ args' = a
    /\ entry' = a
    /\ kernel_log' = <<>>
    /\ IF valid_arguments(a)
       THEN /\ pc' = "loop"
            /\ frame' = [b |-> 0,
                         batch_size |-> a.clip_space_vertices.shape[1],
                         vertex_count |-> a.clip_space_vertices.shape[2],
                         per_image_barycentric_coordinates |->
                             fresh_list(frame.per_image_barycentric_coordinates),
                         per_image_vertex_ids |->
                             fresh_list(frame.per_image_vertex_ids)]
            /\ result' = NoResult
       ELSE /\ pc' = "done"
            /\ frame' = frame
            /\ result' = Failure("ValueError")

rasterize_clip_space ==
    /\ pc = "idle"
    /\ \E a \in ClipArguments : Enter(a)
    /\ UNCHANGED <<kern, prev, grad_vars>>

\* rasterize: projects the world-space vertices and calls rasterize_clip_space.
\* The camera batch has the size of the vertex batch.
rasterize ==
    /\ pc = "idle"
    /\ \E B \in 1..MaxBatch, Ba \in 1..MaxBatch, off \in 0..1,
          cam \in 0..(Len(CamSeq) - 1), A \in AttributeCounts,
          tr \in CallTriangleLists, W \in {0, MaxWidth} :
          LET world == [b \in 1..B |-> WorldOf(MeshBatch(B, off)[b])]
              camera_matrices == [b \in 1..B |-> CamSeq[((cam + b - 1) % Len(CamSeq)) + 1]]
              clip == transform_homogeneous(camera_matrices, world)
          IN  Enter([clip_space_vertices |->
                         [shape |-> <<B, Len(clip[1]), 4>>, data |-> clip],
                     attributes |-> AttributeBuffer(1, Ba, Len(clip[1]), A),
                     triangles |-> tr, image_width |-> W,
                     image_height |-> MaxHeight,
                     background_value |-> [c \in 1..A |-> 6 + c]])
    /\ UNCHANGED <<kern, prev, grad_vars>>

\* The body of the loop over the batch for image b of arguments a, lines
\* 158-166: the kernel invocation and the two entries it appends.
loop_body(a, b) ==
    LET slice == vertex_slice(a.clip_space_vertices.data, b)
        fwd == BarycentricRasterizer_forward(slice, a.triangles,
                                             a.image_width, a.image_height)
        vertex_ids == index_select(a.triangles, Flatten(fwd.ret.px_triangle_ids))
    IN  [invocation |->
             [clip_space_vertices |-> slice, triangles |-> a.triangles,
              image_width |-> a.image_width, image_height |-> a.image_height,
              ret |-> fwd.ret],
         barycentric |-> Flatten(fwd.ret.px_barycentric_coords),
         vertex_ids |-> reindexed_ids(vertex_ids, b, a.clip_space_vertices.shape[2])]

\* One iteration of the loop over the batch: lines 157-166.
LoopIteration ==
    /\ pc = "loop"
    /\ frame.b < frame.batch_size
    /\ LET body == loop_body(args, frame.b)
       IN  /\ kernel_log' = Append(kernel_log, body.invocation)
           /\ frame' = [frame EXCEPT
                  !.b = @ + 1,
                  !.per_image_barycentric_coordinates = Append(@, body.barycentric),
                  !.per_image_vertex_ids = Append(@, body.vertex_ids)]
    /\ UNCHANGED <<kern, pc, args, entry, result, prev, grad_vars>>

\* After the loop: lines 168-197.
Finish ==
    /\ pc = "loop"
    /\ frame.b = frame.batch_size
    /\ result' = finish(args, frame.batch_size, frame.vertex_count,
                        frame.per_image_barycentric_coordinates,
                        frame.per_image_vertex_ids)
    /\ pc' = "done"
    /\ UNCHANGED <<kern, args, entry, frame, kernel_log, prev, grad_vars>>

Init ==
    /\ kern = KernelIdle
    /\ pc = "idle"
    /\ args = NoArgs
    /\ entry = NoArgs
    /\ frame = NoFrame
    /\ kernel_log = <<>>
    /\ result = NoResult
    /\ prev = NoPrev
    /\ ctxs = <<>>
    /\ fwd_log = <<>>
    /\ bwd_log = <<>>

\* One call of an entry point, from its entry to its result.
Next ==
    \/ rasterize_clip_space
    \/ rasterize
    \/ LoopIteration
    \/ Finish

Spec == Init /\ [][Next]_vars

\* ------------------------------------------------- calls one after another
\* A caller that calls rasterize_clip_space again and again and may remember
\* one call's arguments and result; age counts, up to 2, the calls begun since.
RepeatArguments ==
    {[clip_space_vertices |->
          [shape |-> <<B, Len(MeshNear), 4>>, data |-> MeshBatch(B, off)],
      attributes |-> AttributeBuffer(1, B, Len(MeshNear), 2),
      triangles |-> << <<0, 1, 3>>, <<0, 1, 2>> >>,
      image_width |-> W, image_height |-> MaxHeight,
      background_value |-> <<7, 8>>] :
        B \in 1..MaxBatch, off \in {0, 3}, W \in {0, MaxWidth}}

CallAgain ==
    /\ pc = "idle"
    /\ \E a \in RepeatArguments : Enter(a)
    /\ prev' = [prev EXCEPT !.age = IF @ < 2 THEN @ + 1 ELSE @]
    /\ UNCHANGED <<kern, grad_vars>>

Remember ==
    /\ pc = "done"
    /\ prev' = [args |-> entry, result |-> result, age |-> 0]
    /\ UNCHANGED <<kern, pc, args, entry, frame, kernel_log, result, grad_vars>>

\* The caller takes the result; what the call left behind stays as it is.
Return ==
    /\ pc = "done"
    /\ pc' = "idle"
    /\ UNCHANGED <<kern, args, entry, frame, kernel_log, result, prev, grad_vars>>

RepeatNext ==
    \/ CallAgain
    \/ LoopIteration
    \/ Finish
    \/ Remember
    \/ Return

SpecRepeat == Init /\ [][RepeatNext]_vars

\* ------------------------------------------- BarycentricRasterizer (autograd)
\* A gradient returned by backward: a value, or None.
Grad(value) == [is_none |-> FALSE, value |-> value]

NoneTensor == [is_none |-> TRUE, value |-> <<>>]

NoneNumber == [is_none |-> TRUE, value |-> 0]

\* torch.zeros_like(triangles).
zeros_like(triangles) == [i \in 1..Len(triangles) |-> <<0, 0, 0>>]

\* Line 71: what backward returns.
backward_return_none(df_dvertices, triangles) ==
    <<Grad(df_dvertices), NoneTensor, NoneNumber, NoneNumber>>

backward_return(df_dvertices, triangles) ==
    <<Grad(df_dvertices), Grad(zeros_like(triangles)), Grad(0), Grad(0)>>

\* ctx.save_for_backward: the record of this forward call, beside the others.
save_for_backward_shared(records, saved) ==
    [c \in 1..(Len(records) + 1) |->
        [saved_tensors |-> saved,
         consumed |-> IF c <= Len(records) THEN records[c].consumed ELSE FALSE]]

save_for_backward(records, saved) ==
    Append(records, [saved_tensors |-> saved, consumed |-> FALSE])

\* rasterize_triangles_cpp.backward: some vertex gradient of the shape of the
\* vertex buffer; its values are the gradient kernel's business.
GradientKernelOutputs(clip_space_vertices) ==
    {[v \in 1..Len(clip_space_vertices) |-> <<g * v, -g, 0, g>>] : g \in 0..1}

\* Upstream gradients with respect to the barycentric buffer, [H][W][3].
UpstreamGradients(px_barycentric_coords) ==
    {[y \in 1..Len(px_barycentric_coords) |->
        [x \in 1..Len(px_barycentric_coords[y]) |-> <<u, 0, -u>>]] : u \in 1..2}

\* BarycentricRasterizer.apply: forward, with a new operation record.
Forward ==
    /\ Len(ctxs) < MaxCtx
    /\ \E verts \in {MeshNear, MeshHalf},
          tris \in {<< <<0, 1, 2>>, <<0, 1, 3>> >>, << <<0, 1, 3>> >>} :
          LET fwd == BarycentricRasterizer_forward(verts, tris, MaxWidth, MaxHeight)
          IN  /\ ctxs' = save_for_backward(ctxs, fwd.saved)
              /\ fwd_log' = Append(fwd_log,
                     [clip_space_vertices |-> verts, triangles |-> tris,
                      image_width |-> MaxWidth, image_height |-> MaxHeight,
                      ret |-> fwd.ret])
    /\ UNCHANGED <<kern, orch_vars, bwd_log>>

\* BarycentricRasterizer.backward on the record of forward call c; autograd
\* releases a record's saved tensors once its backward has run.
Backward(c) ==
    /\ c \in 1..Len(ctxs)
    /\ ~ctxs[c].consumed
    /\ LET saved == ctxs[c].saved_tensors
       IN  \E df_dbarycentric_coords \in UpstreamGradients(saved.px_barycentric_coords),
              df_dvertices \in GradientKernelOutputs(saved.clip_space_vertices) :
              bwd_log' = Append(bwd_log,
                  [ctx |-> c,
                   kernel_args |-> <<df_dbarycentric_coords, saved.clip_space_vertices,
                                     saved.triangles, saved.px_triangle_ids,
                                     saved.px_barycentric_coords>>,
                   output |-> <<df_dvertices>>,
                   ret |-> backward_return(df_dvertices, saved.triangles)])
    /\ ctxs' = [ctxs EXCEPT ![c].consumed = TRUE]
    /\ UNCHANGED <<kern, orch_vars, fwd_log>>

AutogradNext ==
    \/ Forward
    \/ \E c \in 1..MaxCtx : Backward(c)

SpecAutograd == Init /\ [][AutogradNext]_vars

\* ---------------------------------------------- kernel as a state machine
\* Worker k owns the pixels p with p % KernelWorkers = k and visits, triangle
\* by triangle, each of its pixels; workers interleave freely.
OwnedPixels(k, P) == {p \in 0..(P - 1) : p % KernelWorkers = k}

KernelStart ==
    /\ kern.pc = "idle"
    /\ \E verts \in Meshes, tris \in TriangleLists, W \in 1..MaxWidth, H \in 1..MaxHeight :
          kern' = [pc |-> "run", verts |-> verts, tris |-> tris, w |-> W, h |-> H,
                   px |-> [p \in 1..(W * H) |-> EmptyPixel],
                   pos |-> [k \in 1..KernelWorkers |-> 0]]
    /\ UNCHANGED <<orch_vars, grad_vars>>

\* Worker k's next depth test: its pos-th visit, triangle-major.
KernelDepthTest(k) ==
    /\ kern.pc = "run"
    /\ LET P == kern.w * kern.h
           own == OwnedPixels(k - 1, P)
           n == Cardinality(own)
           i == kern.pos[k]
       IN  /\ n > 0
           /\ i < n * Len(kern.tris)
           /\ LET t == i \div n
                  p == (i % n) * KernelWorkers + (k - 1)
                  x == p % kern.w
                  y == p \div kern.w
              IN  kern' = [kern EXCEPT
                      !.px[p + 1] = DepthTest(@, t,
                          Fragment(kern.verts, kern.tris[t + 1], kern.w, kern.h, x, y)),
                      !.pos[k] = i + 1]
    /\ UNCHANGED <<orch_vars, grad_vars>>

KernelFinished ==
    \A k \in 1..KernelWorkers :
        kern.pos[k] = Cardinality(OwnedPixels(k - 1, kern.w * kern.h)) * Len(kern.tris)

KernelReturn ==
    /\ kern.pc = "run"
    /\ KernelFinished
    /\ kern' = [kern EXCEPT !.pc = "returned"]
    /\ UNCHANGED <<orch_vars, grad_vars>>

KernelRelease ==
    /\ kern.pc = "returned"
    /\ kern' = KernelIdle
    /\ UNCHANGED <<orch_vars, grad_vars>>

KernelNext ==
    \/ KernelStart
    \/ \E k \in 1..KernelWorkers : KernelDepthTest(k)
    \/ KernelReturn
    \/ KernelRelease

SpecKernel == Init /\ [][KernelNext]_vars
\* ========================================================== properties
\* The call in progress has arguments the entry checks accept.
Accepted == pc # "idle" /\ valid_arguments(args)

\* Its batch sizes and attribute counts agree, too.
WellFormed ==
    /\ Accepted
    /\ Len(args.attributes) = args.clip_space_vertices.shape[1]
    /\ SameAttributeCount(args)

Returned == pc = "done" /\ result.status = "returned"

BatchIndices == 1..args.clip_space_vertices.shape[1]
Rows == 1..args.image_height
Columns == 1..args.image_width

\* What invocation b of the kernel reported for pixel (x, y).
ReportedId(b, y, x) == kernel_log[b].ret.px_triangle_ids[y][x]
ReportedWeights(b, y, x) == kernel_log[b].ret.px_barycentric_coords[y][x]

\* clamp(2 (w0 + w1 + w2), 0, 1) in units of 1 / WeightDenom.
ExpectedAlpha(w) == Clamp(2 * (w[1] + w[2] + w[3]), 0, WeightDenom)

\* alpha (w0 A[T[t][0]] + w1 A[T[t][1]] + w2 A[T[t][2]]) + (1 - alpha) background,
\* in units of 1 / WeightDenom^2, for image b, triangle id t and weights w.
ExpectedPixel(b, t, w) ==
    LET A == args.attributes[b]
        T == args.triangles[t + 1]
    IN  [c \in 1..Len(args.background_value) |->
            ExpectedAlpha(w) * (w[1] * A[T[1] + 1][c] + w[2] * A[T[2] + 1][c]
                                + w[3] * A[T[3] + 1][c])
            + (WeightDenom - ExpectedAlpha(w)) * WeightDenom * args.background_value[c]]

\* C1: a call with image_width <= 0, image_height <= 0 or a vertex buffer
\* that is not 3-dimensional ends in a ValueError, with no kernel invocation
\* and no output image.
C1_InvalidArgumentsRejected ==
    (pc # "idle" /\ (args.image_width <= 0 \/ args.image_height <= 0
                     \/ Len(args.clip_space_vertices.shape) # 3))
        => /\ pc = "done"
           /\ result.status = "ValueError"
           /\ result.value = <<>>
           /\ kernel_log = <<>>

C1_Witness ==
    /\ pc = "done"
    /\ result.status = "ValueError"
    /\ args.image_width > 0
    /\ args.image_height > 0
    /\ Len(args.clip_space_vertices.shape) = 4

\* C2: a call whose attribute buffer has another batch size than its vertex
\* buffer ends rejected, with a ValueError, before any kernel invocation.
C2_BatchMismatchRejected ==
    (pc = "done" /\ Len(args.clip_space_vertices.shape) = 3
     /\ Len(args.attributes) # args.clip_space_vertices.shape[1])
        => /\ result.status = "ValueError"
           /\ kernel_log = <<>>

\* C3: a pixel reported with id 0 and weights (0,0,0) gets alpha 0 and exactly
\* the background value; a pixel reported with id 0 and other weights gets a
\* positive alpha and the blend of triangle 0's vertex attributes.
C3_UncoveredPixelIsBackground ==
    (WellFormed /\ Returned) =>
        \A b \in BatchIndices, y \in Rows, x \in Columns :
            ReportedId(b, y, x) = 0 =>
                IF ReportedWeights(b, y, x) = <<0, 0, 0>>
                THEN /\ result.alphas[b][y][x] = 0
                     /\ result.value[b][y][x] =
                            [c \in 1..Len(args.background_value) |->
                                WeightDenom * WeightDenom * args.background_value[c]]
                ELSE /\ result.alphas[b][y][x] > 0
                     /\ result.value[b][y][x] =
                            ExpectedPixel(b, 0, ReportedWeights(b, y, x))

\* An image with an uncovered pixel and a pixel covered by triangle 0, whose
\* vertices have non-zero attributes, over a non-zero background.
C3_Witness ==
    /\ WellFormed
    /\ Returned
    /\ args.background_value[1] # 0
    /\ \E b \in BatchIndices, y \in Rows, x1, x2 \in Columns :
          /\ ReportedId(b, y, x1) = 0
          /\ ReportedWeights(b, y, x1) = <<0, 0, 0>>
          /\ ReportedId(b, y, x2) = 0
          /\ ReportedWeights(b, y, x2) # <<0, 0, 0>>
          /\ \A k \in 1..3 : args.attributes[b][args.triangles[1][k] + 1][1] # 0
          /\ result.value[b][y][x1] # result.value[b][y][x2]

\* C4: every output pixel is alpha * (weighted sum of the attributes of the
\* reported triangle's vertices, in triangle-list order) + (1 - alpha) *
\* background with alpha = clamp(2 * sum of weights, 0, 1); alpha lies in
\* [0, 1] and is 1, leaving no background, when the weights sum to 1/2 or more.
C4_BlendFormula ==
    (WellFormed /\ Returned) =>
        \A b \in BatchIndices, y \in Rows, x \in Columns :
            LET t == ReportedId(b, y, x)
                w == ReportedWeights(b, y, x)
                A == args.attributes[b]
                T == args.triangles[t + 1]
            IN  /\ result.value[b][y][x] = ExpectedPixel(b, t, w)
                /\ result.alphas[b][y][x] = ExpectedAlpha(w)
                /\ result.alphas[b][y][x] \in 0..WeightDenom
                /\ 2 * (w[1] + w[2] + w[3]) >= WeightDenom =>
                      /\ result.alphas[b][y][x] = WeightDenom
                      /\ result.value[b][y][x] =
                             [c \in 1..Len(args.background_value) |->
                                 WeightDenom * (w[1] * A[T[1] + 1][c]
                                                + w[2] * A[T[2] + 1][c]
                                                + w[3] * A[T[3] + 1][c])]

\* A covered pixel whose rounded weights are unequal and sum to less than 1,
\* with distinct attributes at the triangle's vertices.
C4_Witness ==
    /\ WellFormed
    /\ Returned
    /\ \E b \in BatchIndices, y \in Rows, x \in Columns :
          LET w == ReportedWeights(b, y, x)
              T == args.triangles[ReportedId(b, y, x) + 1]
          IN  /\ w[1] + w[2] + w[3] < WeightDenom
              /\ 2 * (w[1] + w[2] + w[3]) >= WeightDenom
              /\ w[1] # w[2]
              /\ args.attributes[b][T[1] + 1][1] # args.attributes[b][T[2] + 1][1]
              /\ args.background_value[1] # 0

\* The arguments with image b2 of the attribute buffer changed.
WithOtherAttributes(a, b2) ==
    [a EXCEPT !.attributes[b2] =
        [v \in 1..Len(@) |-> [c \in 1..Len(@[v]) |-> @[v][c] + 1]]]

\* The arguments with image b2 of the vertex buffer replaced by mesh m.
WithOtherVertices(a, b2, m) == [a EXCEPT !.clip_space_vertices.data[b2] = m]

\* rasterize_clip_space as a function of accepted arguments.
rasterize_clip_space_of(a) ==
    LET B == a.clip_space_vertices.shape[1]
    IN  finish(a, B, a.clip_space_vertices.shape[2],
               [i \in 1..B |-> loop_body(a, i - 1).barycentric],
               [i \in 1..B |-> loop_body(a, i - 1).vertex_ids])

\* A mesh other than the one given.
OtherMesh(m) == IF m = MeshHalf THEN MeshNear ELSE MeshHalf

\* C5: every attribute row gathered for a pixel of image b has the flattened
\* index triangles[id][k] + b * vertex_count, inside image b's rows; and the
\* output image b is the same after a change to another image's attributes
\* or vertices.
C5_BatchImagesIndependent ==
    /\ Accepted =>
          \A i \in 1..Len(frame.per_image_vertex_ids) :
              \A p \in 1..Len(frame.per_image_vertex_ids[i]) : \A k \in 1..3 :
                  LET id == Flatten(kernel_log[i].ret.px_triangle_ids)[p]
                      row == frame.per_image_vertex_ids[i][p][k]
                  IN  /\ row = args.triangles[id + 1][k] + (i - 1) * frame.vertex_count
                      /\ row >= (i - 1) * frame.vertex_count
                      /\ row < i * frame.vertex_count
    /\ (WellFormed /\ Returned) =>
          \A b2 \in BatchIndices :
              LET other_attributes ==
                      rasterize_clip_space_of(WithOtherAttributes(args, b2)).value
                  other_vertices ==
                      rasterize_clip_space_of(
                          WithOtherVertices(args, b2,
                              OtherMesh(args.clip_space_vertices.data[b2]))).value
              IN  \A b \in BatchIndices \ {b2} :
                      /\ other_attributes[b] = result.value[b]
                      /\ other_vertices[b] = result.value[b]

\* Two images, the second with a covered pixel, and a change to the first
\* image's attributes that changes the first output image.
C5_Witness ==
    /\ WellFormed
    /\ Returned
    /\ Len(kernel_log) >= 2
    /\ \E y \in Rows, x \in Columns : ReportedWeights(2, y, x) # <<0, 0, 0>>
    /\ rasterize_clip_space_of(WithOtherAttributes(args, 1)).value[1] # result.value[1]

\* C6: backward returns four gradients, in the order (vertices, triangles,
\* image_width, image_height): the gradient kernel's vertex gradient, of the
\* shape of the forward vertex buffer, an all-zero tensor of the triangle
\* list's shape, and two zeros; none of them is None.
C6_BackwardReturn ==
    \A i \in 1..Len(bwd_log) :
        LET ret == bwd_log[i].ret
            fwd == fwd_log[bwd_log[i].ctx]
        IN  /\ Len(ret) = 4
            /\ \A j \in 1..4 : ~ret[j].is_none
            /\ ret[1].value = bwd_log[i].output[1]
            /\ Len(ret[1].value) = Len(fwd.clip_space_vertices)
            /\ \A v \in 1..Len(ret[1].value) : Len(ret[1].value[v]) = 4
            /\ Len(ret[2].value) = Len(fwd.triangles)
            /\ \A t \in 1..Len(ret[2].value) : ret[2].value[t] = <<0, 0, 0>>
            /\ ret[3].value = 0
            /\ ret[4].value = 0

C6_Witness ==
    \E i \in 1..Len(bwd_log) :
        /\ bwd_log[i].ret[1].value[1] # <<0, 0, 0, 0>>
        /\ Len(bwd_log[i].ret[2].value) = 2

C8_NoStateAcrossCalls ==
    /\ (pc = "done" /\ prev.result.status # "none" /\ prev.args = entry)
           => result = prev.result
    /\ pc # "idle" => args = entry

\* A returned call, the second call begun since a call with the same
\* arguments was remembered.
C8_Witness ==
    /\ pc = "done"
    /\ prev.age = 2
    /\ prev.args = entry
    /\ result.status = "returned"
    /\ Len(result.value) >= 2

\* The triangles of the kernel's list covering its pixel p, as list positions.
Covering(p) ==
    {t \in 0..(Len(kern.tris) - 1) :
        Fragment(kern.verts, kern.tris[t + 1], kern.w, kern.h,
                 p % kern.w, p \div kern.w).covered}

FragmentAt(p, t) ==
    Fragment(kern.verts, kern.tris[t + 1], kern.w, kern.h, p % kern.w, p \div kern.w)

\* C9: when the kernel returns, a pixel covered by some triangle holds the id,
\* weights and depth of the covering triangle of least depth, the first in
\* the list among those of least depth; that depth, and the winning triangle
\* when it is the only one of least depth, are the same under every ordering
\* of the list; the stored id is in [0, triangle_count).
C9_MinimumDepthWins ==
    kern.pc = "returned" =>
        \A p \in 0..(kern.w * kern.h - 1) :
            LET px == kern.px[p + 1]
            IN  /\ px.id \in 0..(Len(kern.tris) - 1)
                /\ Covering(p) = {} => px = EmptyPixel
                /\ Covering(p) # {} =>
                      \E t \in Covering(p) :
                          /\ \A u \in Covering(p) :
                                /\ ~DepthLess(FragmentAt(p, u).z, FragmentAt(p, t).z)
                                /\ u < t => DepthLess(FragmentAt(p, t).z,
                                                      FragmentAt(p, u).z)
                          /\ px = [id |-> t, bary |-> FragmentAt(p, t).bary,
                                   z |-> FragmentAt(p, t).z]
                          /\ \A other \in TriangleLists :
                                {other[i] : i \in DOMAIN other}
                                    = {kern.tris[i] : i \in DOMAIN kern.tris} =>
                                LET q == RasterizePixel(kern.verts, other, kern.w,
                                             kern.h, p % kern.w, p \div kern.w,
                                             Len(other))
                                IN  /\ ~DepthLess(q.z, px.z)
                                    /\ ~DepthLess(px.z, q.z)
                                    /\ (\A u \in Covering(p) \ {t} :
                                            DepthLess(px.z, FragmentAt(p, u).z))
                                           => other[q.id + 1] = kern.tris[t + 1]

\* A returned run with a pixel where a later triangle of the list is nearer
\* than an earlier one, and a pixel where two triangles tie.
C9_WitnessNearer ==
    /\ kern.pc = "returned"
    /\ \E p \in 0..(kern.w * kern.h - 1) :
          /\ kern.px[p + 1].id = 1
          /\ Cardinality(Covering(p)) = 2

\* C10: the kernel is invoked once per image, in the order of the batch; the
\* b-th invocation gets image b's vertex slice, the triangle list and the
\* image size of the call; the b-th entries of the call's lists hold that
\* invocation's weights and triangle ids, not its z-buffer; a returned call
\* has made exactly batch_size invocations.
C10_OneInvocationPerImage ==
    Accepted =>
        /\ Len(kernel_log) = frame.b
        /\ frame.b <= args.clip_space_vertices.shape[1]
        /\ pc = "done" => Len(kernel_log) = args.clip_space_vertices.shape[1]
        /\ Len(frame.per_image_barycentric_coordinates) = Len(kernel_log)
        /\ Len(frame.per_image_vertex_ids) = Len(kernel_log)
        /\ \A i \in 1..Len(kernel_log) :
              /\ kernel_log[i].clip_space_vertices = args.clip_space_vertices.data[i]
              /\ Len(kernel_log[i].clip_space_vertices) = frame.vertex_count
              /\ kernel_log[i].triangles = args.triangles
              /\ kernel_log[i].image_width = args.image_width
              /\ kernel_log[i].image_height = args.image_height
              /\ frame.per_image_barycentric_coordinates[i]
                     = Flatten(kernel_log[i].ret.px_barycentric_coords)
              /\ \A p \in 1..Len(frame.per_image_vertex_ids[i]) :
                    frame.per_image_vertex_ids[i][p] =
                        [k \in 1..3 |->
                            args.triangles[Flatten(kernel_log[i].ret.px_triangle_ids)[p]
                                           + 1][k] + (i - 1) * frame.vertex_count]

\* A returned call on a batch of two different images whose kernel runs gave
\* different z-buffers.
C10_Witness ==
    /\ Returned
    /\ Len(kernel_log) >= 2
    /\ kernel_log[1].clip_space_vertices # kernel_log[2].clip_space_vertices
    /\ kernel_log[1].ret.z_buffer # kernel_log[2].ret.z_buffer
====
